---- MODULE Spec2Model ----
(***************************************************************************)
(* Model of the decomposed AT2 process state machine                       *)
(* (src/src/at2/decomposed_at2.rs): struct Proc and its operations.        *)
(*                                                                         *)
(* The ledger (crate::at2::bank) is a collaborator whose code is not part  *)
(* of the modelled file; the Bank* operators model it from its contract:   *)
(* an account has the balance it was opened with plus the net effect of    *)
(* the transfers applied so far.                                           *)
(***************************************************************************)
EXTENDS Integers, Sequences, FiniteSets, Bags, TLC

\* ---- bounds ----
MaxCounter == 2
MaxMoney == 1

\* ---- data model ----
\* the identities: the process under study and one other actor
Identity == {1, 2}
Money == 0 .. MaxMoney
Dots == [actor : Identity, counter : 1 .. MaxCounter]
Transfers == [from : Identity, to : Identity, amount : Money]
Msg == [op : Transfers, source_version : Dots]

VARIABLES
    pc,           \* position of each process: idle, inside handle_msg, aborted
    bank,         \* Proc::bank
    seq,          \* Proc::seq, applied versions
    rec,          \* Proc::rec, received versions
    to_validate,  \* Proc::to_validate
    batch,        \* the local to_validate of process_msg_queue
    peers,        \* Proc::peers
    ret,          \* what the last call on the process returned (<<>> while one runs)
    accepted,     \* per actor, the counters on_delivery logged as accepted
    applied,      \* per actor, the counters whose transfer went to bank.apply
    onboarded,    \* per identity, the number of bank.onboard_account calls
    sent,         \* per actor, the BroadcastMsg commands handed to the network
    handled,      \* per process and actor, how many of sent the process handled
    wire,         \* per process, the BroadcastNewPeer commands on their way to it
    announced     \* per process, the BroadcastNewPeer commands it has returned

vars == <<pc, bank, seq, rec, to_validate, batch, peers, ret,
          accepted, applied, onboarded, sent, handled, wire, announced>>

\* what belongs to the network around the processes
net == <<sent, handled, wire, announced>>

NoneAnnounced == [onboard |-> 0, handle_new_peer |-> 0]

Running == DOMAIN pc

\* ---- crdts::VClock ----
VClockNew == [a \in Identity |-> 0]

VClockInc(clock, actor) == [actor |-> actor, counter |-> clock[actor] + 1]

\* a merge that adds the dot's counter instead of taking the maximum
VClockApplyAdds(clock, dot) == [clock EXCEPT ![dot.actor] = @ + dot.counter]

VClockApply(clock, dot) ==
    IF clock[dot.actor] < dot.counter
    THEN [clock EXCEPT ![dot.actor] = dot.counter]
    ELSE clock

\* ---- the ledger collaborator (crate::at2::bank) ----
BankNew == [initial_balances |-> <<>>, net |-> [a \in Identity |-> 0]]

BankAccounts(b) == DOMAIN b.initial_balances

BankOnboardAccount(b, id, initial_balance) ==
    [b EXCEPT !.initial_balances =
        [a \in (DOMAIN b.initial_balances) \cup {id} |->
            IF a = id THEN initial_balance ELSE b.initial_balances[a]]]

BankInitialBalance(b, id) == b.initial_balances[id]

BankRead(b, account) == b.initial_balances[account] + b.net[account]

BankTransferSome(b, from, to, amount) ==
    /\ from \in BankAccounts(b)
    /\ BankRead(b, from) >= amount

BankValidate(b, from, transfer) ==
    /\ from = transfer.from
    /\ transfer.from \in BankAccounts(b)
    /\ BankRead(b, transfer.from) >= transfer.amount

BankApply(b, transfer) ==
    LET debited == [b.net EXCEPT ![transfer.from] = @ - transfer.amount]
    IN  [b EXCEPT !.net = [debited EXCEPT ![transfer.to] = @ + transfer.amount]]

\* ---- Cmd ----
BroadcastNewPeer(new_peer, initial_balance) ==
    [type |-> "BroadcastNewPeer", new_peer |-> new_peer,
     initial_balance |-> initial_balance]

BroadcastMsg(from, msg) == [type |-> "BroadcastMsg", from |-> from, msg |-> msg]

\* what a call that returns no Vec<Cmd> hands back: read's Money, a panic
Balance(money) == [type |-> "Money", money |-> money]

Panic(assertion) == [type |-> "panic", assertion |-> assertion]

\* ---- Proc::new ----
ProcNew(procs) ==
    /\ pc = [p \in procs |-> "idle"]
    /\ \E balance \in [procs -> Money] :
          bank = [p \in procs |-> BankOnboardAccount(BankNew, p, balance[p])]
    /\ seq = [p \in procs |-> VClockNew]
    /\ rec = [p \in procs |-> VClockNew]
    /\ to_validate = [p \in procs |-> <<>>]
    /\ batch = [p \in procs |-> <<>>]
    /\ peers = [p \in procs |-> {}]
    /\ ret = [p \in procs |-> <<>>]
    /\ accepted = [p \in procs |-> [a \in Identity |-> <<>>]]
    /\ applied = [p \in procs |-> [a \in Identity |-> <<>>]]
    /\ onboarded = [p \in procs |-> [a \in Identity |-> IF a = p THEN 1 ELSE 0]]
    /\ sent = [a \in Identity |-> <<>>]
    /\ handled = [p \in procs |-> [a \in Identity |-> 0]]
    /\ wire = [p \in procs |-> EmptyBag]
    /\ announced = [p \in procs |-> NoneAnnounced]

\* ---- Proc::onboard ----
Onboard(p) ==
    /\ pc[p] = "idle"
    /\ ret' = [ret EXCEPT ![p] =
          <<BroadcastNewPeer(p, BankInitialBalance(bank[p], p))>>]
    /\ UNCHANGED <<pc, bank, seq, rec, to_validate, batch, peers,
                   accepted, applied, onboarded>>

\* ---- Proc::transfer ----
\* transfer stamping with the received clock instead of the applied one
TransferCmdsFromRec(p, from, to, amount) ==
    IF BankTransferSome(bank[p], from, to, amount)
    THEN <<BroadcastMsg(from,
              [op |-> [from |-> from, to |-> to, amount |-> amount],
               source_version |-> VClockInc(rec[p], from)])>>
    ELSE <<>>

\* transfer stamping with a counter of its own, one per message it issued
TransferCmdsCountsSent(p, from, to, amount) ==
    IF BankTransferSome(bank[p], from, to, amount)
    THEN <<BroadcastMsg(from,
              [op |-> [from |-> from, to |-> to, amount |-> amount],
               source_version |->
                  [actor |-> from, counter |-> Len(sent[from]) + 1]])>>
    ELSE <<>>

TransferCmds(p, from, to, amount) ==
    IF BankTransferSome(bank[p], from, to, amount)
    THEN <<BroadcastMsg(from,
              [op |-> [from |-> from, to |-> to, amount |-> amount],
               source_version |-> VClockInc(seq[p], from)])>>
    ELSE <<>>

\* transfer merging the stamp it issues into seq
TransferMergesStamp(p, from, to, amount) ==
    /\ pc[p] = "idle"
    /\ IF from # p
       THEN /\ pc' = [pc EXCEPT ![p] = "panicked"]
            /\ ret' = [ret EXCEPT ![p] = <<Panic("assert_eq!(from, self.id)")>>]
            /\ seq' = seq
       ELSE /\ pc' = pc
            /\ ret' = [ret EXCEPT ![p] =
                  TransferCmds(p, from, to, amount)]
            /\ seq' = [seq EXCEPT ![p] =
                  IF TransferCmds(p, from, to, amount) # <<>> /\ @[from] < MaxCounter
                  THEN VClockApply(@, VClockInc(@, from)) ELSE @]
    /\ UNCHANGED <<bank, rec, to_validate, batch, peers,
                   accepted, applied, onboarded>>

Transfer(p, from, to, amount) ==
    /\ pc[p] = "idle"
    /\ IF from # p
       THEN /\ pc' = [pc EXCEPT ![p] = "panicked"]
            /\ ret' = [ret EXCEPT ![p] = <<Panic("assert_eq!(from, self.id)")>>]
       ELSE /\ pc' = pc
            /\ ret' = [ret EXCEPT ![p] =
                  TransferCmds(p, from, to, amount)]
    /\ UNCHANGED <<bank, seq, rec, to_validate, batch, peers,
                   accepted, applied, onboarded>>

\* ---- Proc::read ----
Read(p, account) ==
    /\ pc[p] = "idle"
    /\ account \in BankAccounts(bank[p])
    /\ ret' = [ret EXCEPT ![p] = <<Balance(BankRead(bank[p], account))>>]
    /\ UNCHANGED <<pc, bank, seq, rec, to_validate, batch, peers,
                   accepted, applied, onboarded>>

\* ---- Proc::on_delivery ----
\* a delivery filter that only refuses what it has already seen
DeliveryAcceptsGaps(p, from, msg) == msg.source_version.counter > rec[p][from]

\* a delivery filter that compares with the applied clock
DeliveryAcceptsFromSeq(p, from, msg) == msg.source_version = VClockInc(seq[p], from)

DeliveryAccepts(p, from, msg) == msg.source_version = VClockInc(rec[p], from)

\* on_delivery without self.rec.apply(msg.source_version)
OnDeliveryForgetsRec(p, from, msg) ==
    IF from # msg.source_version.actor
    THEN /\ pc' = [pc EXCEPT ![p] = "panicked"]
         /\ ret' = [ret EXCEPT ![p] = <<Panic("assert_eq!(from, msg.source_version.actor)")>>]
         /\ UNCHANGED <<rec, to_validate, accepted>>
    ELSE /\ pc' = [pc EXCEPT ![p] = "process_msg_queue"]
         /\ ret' = [ret EXCEPT ![p] = <<>>]
         /\ IF DeliveryAccepts(p, from, msg)
            THEN /\ rec' = rec
                 /\ to_validate' = [to_validate EXCEPT ![p] = Append(@, <<from, msg>>)]
                 /\ accepted' = [accepted EXCEPT ![p][from] =
                                    Append(@, msg.source_version.counter)]
            ELSE UNCHANGED <<rec, to_validate, accepted>>

\* on_delivery keeping a refused message for a later drain
OnDeliveryBuffersRejected(p, from, msg) ==
    IF from # msg.source_version.actor
    THEN /\ pc' = [pc EXCEPT ![p] = "panicked"]
         /\ ret' = [ret EXCEPT ![p] = <<Panic("assert_eq!(from, msg.source_version.actor)")>>]
         /\ UNCHANGED <<rec, to_validate, accepted>>
    ELSE /\ pc' = [pc EXCEPT ![p] = "process_msg_queue"]
         /\ ret' = [ret EXCEPT ![p] = <<>>]
         /\ to_validate' = [to_validate EXCEPT ![p] = Append(@, <<from, msg>>)]
         /\ IF DeliveryAccepts(p, from, msg)
            THEN /\ rec' = [rec EXCEPT ![p] = VClockApply(@, msg.source_version)]
                 /\ accepted' = [accepted EXCEPT ![p][from] =
                                    Append(@, msg.source_version.counter)]
            ELSE UNCHANGED <<rec, accepted>>

OnDelivery(p, from, msg) ==
    IF from # msg.source_version.actor
    THEN /\ pc' = [pc EXCEPT ![p] = "panicked"]
         /\ ret' = [ret EXCEPT ![p] = <<Panic("assert_eq!(from, msg.source_version.actor)")>>]
         /\ UNCHANGED <<rec, to_validate, accepted>>
    ELSE /\ pc' = [pc EXCEPT ![p] = "process_msg_queue"]
         /\ ret' = [ret EXCEPT ![p] = <<>>]
         /\ IF DeliveryAccepts(p, from, msg)
            THEN /\ rec' = [rec EXCEPT ![p] = VClockApply(@, msg.source_version)]
                 /\ to_validate' = [to_validate EXCEPT ![p] = Append(@, <<from, msg>>)]
                 /\ accepted' = [accepted EXCEPT ![p][from] =
                                    Append(@, msg.source_version.counter)]
            ELSE UNCHANGED <<rec, to_validate, accepted>>

\* ---- Proc::validate ----
\* validate without the ledger's check
ValidateSkipsBank(p, from, msg) ==
    IF from # msg.source_version.actor
    THEN FALSE
    ELSE IF msg.source_version # VClockInc(seq[p], from)
    THEN FALSE
    ELSE TRUE

\* validate without the direct-successor check
ValidateSkipsSeq(p, from, msg) ==
    IF from # msg.source_version.actor
    THEN FALSE
    ELSE BankValidate(bank[p], from, msg.op)

Validate(p, from, msg) ==
    IF from # msg.source_version.actor
    THEN FALSE
    ELSE IF msg.source_version # VClockInc(seq[p], from)
    THEN FALSE
    ELSE BankValidate(bank[p], from, msg.op)

\* ---- Proc::on_validated ----
\* on_validated without self.seq.apply(msg.source_version)
OnValidatedForgetsSeq(p, from, msg) ==
    IF Validate(p, from, msg) /\ msg.source_version = VClockInc(seq[p], from)
    THEN /\ seq' = seq
         /\ bank' = [bank EXCEPT ![p] = BankApply(@, msg.op)]
         /\ applied' = [applied EXCEPT ![p][from] =
                           Append(@, msg.source_version.counter)]
         /\ UNCHANGED <<pc, ret>>
    ELSE /\ pc' = [pc EXCEPT ![p] = "panicked"]
         /\ ret' = [ret EXCEPT ![p] = <<Panic("assert!(self.valid(from, &msg))")>>]
         /\ UNCHANGED <<seq, bank, applied>>

OnValidated(p, from, msg) ==
    IF Validate(p, from, msg) /\ msg.source_version = VClockInc(seq[p], from)
    THEN /\ seq' = [seq EXCEPT ![p] = VClockApply(@, msg.source_version)]
         /\ bank' = [bank EXCEPT ![p] = BankApply(@, msg.op)]
         /\ applied' = [applied EXCEPT ![p][from] =
                           Append(@, msg.source_version.counter)]
         /\ UNCHANGED <<pc, ret>>
    ELSE /\ pc' = [pc EXCEPT ![p] = "panicked"]
         /\ ret' = [ret EXCEPT ![p] = <<Panic("assert!(self.valid(from, &msg))")>>]
         /\ UNCHANGED <<seq, bank, applied>>

\* ---- Proc::handle_msg ----
\* handle_msg runs on_delivery, then process_msg_queue, then returns vec![].
\* handle_msg without the call of process_msg_queue
HandleMsgForgetsDrain(p, from, msg) ==
    /\ pc[p] = "idle"
    /\ IF from # msg.source_version.actor
       THEN /\ pc' = [pc EXCEPT ![p] = "panicked"]
            /\ ret' = [ret EXCEPT ![p] = <<Panic("assert_eq!(from, msg.source_version.actor)")>>]
            /\ UNCHANGED <<rec, to_validate, accepted>>
       ELSE /\ pc' = pc
            /\ ret' = [ret EXCEPT ![p] = <<>>]
            /\ IF DeliveryAccepts(p, from, msg)
               THEN /\ rec' = [rec EXCEPT ![p] = VClockApply(@, msg.source_version)]
                    /\ to_validate' = [to_validate EXCEPT ![p] = Append(@, <<from, msg>>)]
                    /\ accepted' = [accepted EXCEPT ![p][from] =
                                       Append(@, msg.source_version.counter)]
               ELSE UNCHANGED <<rec, to_validate, accepted>>
    /\ UNCHANGED <<bank, seq, batch, peers, applied, onboarded>>

HandleMsg(p, from, msg) ==
    /\ pc[p] = "idle"
    /\ OnDelivery(p, from, msg)
    /\ UNCHANGED <<bank, seq, batch, peers, applied, onboarded>>

\* ---- Proc::process_msg_queue ----
\* mem::replace(&mut self.to_validate, Vec::new())
\* process_msg_queue iterating over a copy of the queue
ProcessMsgQueueKeeps(p) ==
    /\ pc[p] = "process_msg_queue"
    /\ batch' = [batch EXCEPT ![p] = to_validate[p]]
    /\ to_validate' = to_validate
    /\ pc' = [pc EXCEPT ![p] = "drain"]
    /\ UNCHANGED <<bank, seq, rec, peers, ret, accepted, applied, onboarded>>

ProcessMsgQueue(p) ==
    /\ pc[p] = "process_msg_queue"
    /\ batch' = [batch EXCEPT ![p] = to_validate[p]]
    /\ to_validate' = [to_validate EXCEPT ![p] = <<>>]
    /\ pc' = [pc EXCEPT ![p] = "drain"]
    /\ UNCHANGED <<bank, seq, rec, peers, ret, accepted, applied, onboarded>>

\* one iteration of the for loop
DrainStep(p) ==
    /\ pc[p] = "drain"
    /\ batch[p] # <<>>
    /\ LET to == Head(batch[p])[1]
           msg == Head(batch[p])[2]
       IN  IF Validate(p, to, msg)
           THEN OnValidated(p, to, msg)
           ELSE UNCHANGED <<pc, ret, seq, bank, applied>>
    /\ batch' = [batch EXCEPT ![p] = Tail(@)]
    /\ UNCHANGED <<rec, to_validate, peers, accepted, onboarded>>

\* the loop is over: handle_msg returns vec![]
HandleMsgReturn(p) ==
    /\ pc[p] = "drain"
    /\ batch[p] = <<>>
    /\ pc' = [pc EXCEPT ![p] = "idle"]
    /\ ret' = [ret EXCEPT ![p] = <<>>]
    /\ UNCHANGED <<bank, seq, rec, to_validate, batch, peers,
                   accepted, applied, onboarded>>

\* ---- Proc::handle_new_peer ----
\* handle_new_peer without the peers.contains test
IsNewPeerAlways(p, new_proc) == TRUE

IsNewPeer(p, new_proc) == new_proc \notin peers[p]

\* handle_new_peer without bank.onboard_account
HandleNewPeerKeepsLedger(p, new_proc, initial_balance) ==
    /\ pc[p] = "idle"
    /\ IF IsNewPeer(p, new_proc)
       THEN /\ peers' = [peers EXCEPT ![p] = @ \cup {new_proc}]
            /\ ret' = [ret EXCEPT ![p] = <<BroadcastNewPeer(p, BankInitialBalance(bank[p], p))>>]
            /\ UNCHANGED <<bank, onboarded>>
       ELSE /\ ret' = [ret EXCEPT ![p] = <<>>]
            /\ UNCHANGED <<peers, bank, onboarded>>
    /\ UNCHANGED <<pc, seq, rec, to_validate, batch, accepted, applied>>

\* handle_new_peer answering the announcement of a peer it already knows
HandleNewPeerAlwaysAnswers(p, new_proc, initial_balance) ==
    /\ pc[p] = "idle"
    /\ IF IsNewPeer(p, new_proc)
       THEN /\ peers' = [peers EXCEPT ![p] = @ \cup {new_proc}]
            /\ bank' = [bank EXCEPT ![p] =
                           BankOnboardAccount(@, new_proc, initial_balance)]
            /\ onboarded' = [onboarded EXCEPT ![p][new_proc] = @ + 1]
            /\ ret' = [ret EXCEPT ![p] = <<BroadcastNewPeer(p, BankInitialBalance(bank'[p], p))>>]
       ELSE /\ ret' = [ret EXCEPT ![p] = <<BroadcastNewPeer(p, BankInitialBalance(bank[p], p))>>]
            /\ UNCHANGED <<peers, bank, onboarded>>
    /\ UNCHANGED <<pc, seq, rec, to_validate, batch, accepted, applied>>

HandleNewPeer(p, new_proc, initial_balance) ==
    /\ pc[p] = "idle"
    /\ IF IsNewPeer(p, new_proc)
       THEN /\ peers' = [peers EXCEPT ![p] = @ \cup {new_proc}]
            /\ bank' = [bank EXCEPT ![p] =
                           BankOnboardAccount(@, new_proc, initial_balance)]
            /\ onboarded' = [onboarded EXCEPT ![p][new_proc] = @ + 1]
            /\ ret' = [ret EXCEPT ![p] = <<BroadcastNewPeer(p, BankInitialBalance(bank'[p], p))>>]
       ELSE /\ ret' = [ret EXCEPT ![p] = <<>>]
            /\ UNCHANGED <<peers, bank, onboarded>>
    /\ UNCHANGED <<pc, seq, rec, to_validate, batch, accepted, applied>>

\* ---- one process driven by an arbitrary environment ----
Alone == {1}

Init == ProcNew(Alone)

Next ==
    \E p \in Alone :
        \/ Onboard(p) /\ UNCHANGED net
        \/ \E from, to \in Identity, amount \in Money :
              Transfer(p, from, to, amount) /\ UNCHANGED net
        \/ \E account \in Identity : Read(p, account) /\ UNCHANGED net
        \/ \E from \in Identity, msg \in Msg :
              HandleMsg(p, from, msg) /\ UNCHANGED net
        \/ ProcessMsgQueue(p) /\ UNCHANGED net
        \/ DrainStep(p) /\ UNCHANGED net
        \/ HandleMsgReturn(p) /\ UNCHANGED net
        \/ \E new_proc \in Identity, initial_balance \in Money :
              HandleNewPeer(p, new_proc, initial_balance) /\ UNCHANGED net

Spec == Init /\ [][Next]_vars

\* ---- a network of processes exchanging the emitted BroadcastMsg commands ----
MaxSent == 2

\* every process was created and has handled the announcement of every other one
NetInit ==
    /\ pc = [p \in Identity |-> "idle"]
    /\ \E balance \in [Identity -> Money] :
          /\ bank = [p \in Identity |->
                [initial_balances |-> balance, net |-> [a \in Identity |-> 0]]]
          /\ ret = [p \in Identity |-> <<BroadcastNewPeer(p, balance[p])>>]
    /\ seq = [p \in Identity |-> VClockNew]
    /\ rec = [p \in Identity |-> VClockNew]
    /\ to_validate = [p \in Identity |-> <<>>]
    /\ batch = [p \in Identity |-> <<>>]
    /\ peers = [p \in Identity |-> Identity \ {p}]
    /\ accepted = [p \in Identity |-> [a \in Identity |-> <<>>]]
    /\ applied = [p \in Identity |-> [a \in Identity |-> <<>>]]
    /\ onboarded = [p \in Identity |-> [a \in Identity |-> 1]]
    /\ sent = [a \in Identity |-> <<>>]
    /\ handled = [p \in Identity |-> [a \in Identity |-> 0]]
    /\ wire = [p \in Identity |-> EmptyBag]
    /\ announced = [p \in Identity |-> NoneAnnounced]

Emitted == {x \in Identity \X (1 .. MaxSent) : x[2] \in DOMAIN sent[x[1]]}

\* the caller of transfer broadcasts the command it got
NetTransfer(p, to, amount) ==
    /\ Cardinality(Emitted) < MaxSent
    /\ Transfer(p, p, to, amount)
    /\ sent' = [sent EXCEPT ![p] = @ \o [i \in DOMAIN ret'[p] |-> ret'[p][i].msg]]
    /\ UNCHANGED <<handled, wire, announced>>

\* the network hands a process the next message of a sender, in authored order
NetDeliver(p, a) ==
    /\ handled[p][a] < Len(sent[a])
    /\ HandleMsg(p, a, sent[a][handled[p][a] + 1])
    /\ handled' = [handled EXCEPT ![p][a] = @ + 1]
    /\ UNCHANGED <<sent, wire, announced>>

NetNext ==
    \E p \in Identity :
        \/ \E to \in Identity, amount \in Money : NetTransfer(p, to, amount)
        \/ \E a \in Identity : NetDeliver(p, a)
        \/ ProcessMsgQueue(p) /\ UNCHANGED net
        \/ DrainStep(p) /\ UNCHANGED net
        \/ HandleMsgReturn(p) /\ UNCHANGED net

NetSpec == NetInit /\ [][NetNext]_vars

\* ---- a network of new processes exchanging BroadcastNewPeer commands ----
NewPeerCmds == {BroadcastNewPeer(q, b) : q \in Identity, b \in Money}

\* the commands of a returned Vec<Cmd>, as a bag
BagOf(cmds) ==
    [c \in {cmds[i] : i \in DOMAIN cmds} |->
        Cardinality({i \in DOMAIN cmds : cmds[i] = c})]

\* the caller broadcasts the returned commands: to every other process, or to
\* every process, itself included
PeerBroadcast(w, p, cmds) ==
    \E dests \in {Identity \ {p}, Identity} :
        wire' = [d \in Identity |->
                    IF d \in dests THEN w[d] (+) BagOf(cmds) ELSE w[d]]

PeerInit == ProcNew(Identity)

\* a process announces itself, once
PeerOnboard(p) ==
    /\ announced[p].onboard = 0
    /\ Onboard(p)
    /\ PeerBroadcast(wire, p, ret'[p])
    /\ announced' = [announced EXCEPT ![p].onboard = 1]
    /\ UNCHANGED <<sent, handled>>

\* the network hands a process one of the announcements in flight to it, and
\* the caller broadcasts what handle_new_peer returns
PeerDeliver(p, cmd) ==
    /\ BagIn(cmd, wire[p])
    /\ HandleNewPeer(p, cmd.new_peer, cmd.initial_balance)
    /\ PeerBroadcast([wire EXCEPT ![p] = @ (-) SetToBag({cmd})], p, ret'[p])
    /\ announced' = [announced EXCEPT ![p].handle_new_peer = @ + Len(ret'[p])]
    /\ UNCHANGED <<sent, handled>>

PeerNext ==
    \E p \in Identity :
        \/ PeerOnboard(p)
        \/ \E cmd \in NewPeerCmds : PeerDeliver(p, cmd)

\* every process calls onboard, and every command in flight is delivered
PeerFairness ==
    \A p \in Identity :
        /\ WF_vars(PeerOnboard(p))
        /\ \A cmd \in NewPeerCmds : WF_vars(PeerDeliver(p, cmd))

PeerSpec == PeerInit /\ [][PeerNext]_vars /\ PeerFairness

\* ---- properties ----
Counters(n) == [i \in 1 .. n |-> i]

\* C1: on_delivery accepts msg (advances rec[from] by one and enqueues it) if and
\* only if msg carries the counter rec[from] + 1; so the counters of an actor a
\* process accepted are 1, 2, ..., rec[actor], in that order and each once.
SequentialAdmission ==
    /\ [](\A p \in Running : \A a \in Identity :
            accepted[p][a] = Counters(rec[p][a]))
    /\ [][\A p \in Running :
            (pc[p] = "idle" /\ pc'[p] = "process_msg_queue") =>
               IF rec'[p] = rec[p] /\ to_validate'[p] = to_validate[p]
               THEN \* refused: the message did not carry the next counter
                    \A from \in Identity : \A op \in Transfers :
                       rec[p][from] < MaxCounter =>
                          ~HandleMsg(p, from,
                              [op |-> op,
                               source_version |->
                                  [actor |-> from, counter |-> rec[p][from] + 1]])
               ELSE \* accepted: the message carried the next counter
                    \E from \in Identity :
                       LET msg == to_validate'[p][Len(to_validate'[p])][2]
                       IN  /\ to_validate'[p] = Append(to_validate[p], <<from, msg>>)
                           /\ msg.source_version =
                                 [actor |-> from, counter |-> rec[p][from] + 1]
                           /\ rec'[p] = [rec[p] EXCEPT ![from] = @ + 1]]_vars

\* a process accepted counters 1 and 2 of an actor, the second after a refusal
SequentialAdmissionWitness ==
    \E p \in Running : \E a \in Identity :
        /\ accepted[p][a] = <<1, 2>>
        /\ seq[p][a] = 0
        /\ pc[p] = "process_msg_queue"

\* C2: bank.apply is called only from the drain, for the (sender, msg) at the head
\* of the batch, and in the state before it the sender is the stamp's actor, the
\* stamp is seq.inc(sender) and the ledger's validate accepts the transfer.
NeverAppliesInvalid ==
    [][\A p \in Running :
          /\ (bank'[p].net # bank[p].net) => (applied'[p] # applied[p])
          /\ \A a \in Identity :
                (applied'[p][a] # applied[p][a]) =>
                   /\ pc[p] = "drain"
                   /\ batch[p] # <<>>
                   /\ LET sender == Head(batch[p])[1]
                          msg == Head(batch[p])[2]
                      IN  /\ sender = a
                          /\ sender = msg.source_version.actor
                          /\ msg.source_version.counter = seq[p][sender] + 1
                          /\ msg.op.from = sender
                          /\ sender \in DOMAIN bank[p].initial_balances
                          /\ bank[p].initial_balances[sender] + bank[p].net[sender]
                                >= msg.op.amount
                          /\ bank'[p] = BankApply(bank[p], msg.op)]_vars

\* a transfer that moved money was applied
NeverAppliesInvalidWitness ==
    \E p \in Running : \E a \in Identity :
        /\ applied[p][a] # <<>>
        /\ bank[p].net[a] < 0

\* C3: rec[a] >= seq[a] for every actor, at every point, the points inside
\* handle_msg included.
MonotoneDominance ==
    \A p \in Running : \A a \in Identity : rec[p][a] >= seq[p][a]

\* inside the drain, an actor has one transfer applied and a second one received
MonotoneDominanceWitness ==
    \E p \in Running : \E a \in Identity :
        /\ pc[p] = "drain"
        /\ batch[p] # <<>>
        /\ rec[p][a] = 2
        /\ seq[p][a] = 1

\* C4: seq changes only in an on_validated call, which adds exactly one to the
\* sender's entry and leaves the other entries alone; every on_validated call
\* that applies does so; no other step changes seq.
NoDoubleApplication ==
    [][\A p \in Running :
          /\ (seq'[p] # seq[p]) =>
                /\ pc[p] = "drain"
                /\ batch[p] # <<>>
                /\ seq'[p] = [seq[p] EXCEPT ![Head(batch[p])[1]] = @ + 1]
                /\ applied'[p] # applied[p]
          /\ \A a \in Identity :
                (applied'[p][a] # applied[p][a]) =>
                   seq'[p] = [seq[p] EXCEPT ![a] = @ + 1]]_vars

\* two transfers of one actor were applied, one after the other
NoDoubleApplicationWitness ==
    \E p \in Running : \E a \in Identity :
        /\ applied[p][a] = <<1, 2>>
        /\ seq[p][a] = 2
        /\ pc[p] = "idle"

\* C5: once every process has handled every emitted BroadcastMsg (each sender's
\* messages in authored order), all processes read the same balance for every
\* account.
Convergence ==
    (\A p \in Running :
        /\ pc[p] = "idle"
        /\ \A a \in Identity : handled[p][a] = Len(sent[a]))
    => \A p, q \in Running : \A a \in Identity :
          BankRead(bank[p], a) = BankRead(bank[q], a)

\* C6: the balance of every account of every process's ledger is >= 0.
NoOverdraft ==
    \A p \in Running : \A a \in BankAccounts(bank[p]) : BankRead(bank[p], a) >= 0

\* C7: handle_msg(from, msg) with from # msg.source_version.actor returns
\* normally and leaves the process state unchanged.
MismatchIsRecovered ==
    [][\A p \in Running : \A from \in Identity : \A msg \in Msg :
          (from # msg.source_version.actor /\ pc[p] = "idle"
             /\ OnDelivery(p, from, msg)) =>
                /\ pc'[p] # "panicked"
                /\ UNCHANGED <<bank, seq, rec, to_validate, peers>>]_vars

\* C8: transfer(from, to, amount) with from the process's own id changes no field
\* of the process; it returns nothing when the ledger refuses, and otherwise
\* exactly one BroadcastMsg stamped (from, seq[from] + 1), seq[from] unchanged.
TransferChangesNothing ==
    [][\A p \in Running : \A to \in Identity : \A amount \in Money :
          Transfer(p, p, to, amount) =>
             /\ UNCHANGED <<pc, bank, seq, rec, to_validate, batch, peers>>
             /\ IF p \in DOMAIN bank[p].initial_balances
                   /\ bank[p].initial_balances[p] + bank[p].net[p] >= amount
                THEN ret'[p] =
                        <<[type |-> "BroadcastMsg", from |-> p,
                           msg |-> [op |-> [from |-> p, to |-> to, amount |-> amount],
                                    source_version |->
                                       [actor |-> p, counter |-> seq[p][p] + 1]]]>>
                ELSE ret'[p] = <<>>]_vars

\* a second transfer was issued after the first was applied, while a received
\* transfer of the process itself was dropped
TransferChangesNothingWitness ==
    \E p \in Running :
        /\ pc[p] = "idle"
        /\ seq[p][p] = 1
        /\ rec[p][p] = 2
        /\ Len(ret[p]) = 1
        /\ ret[p][1].type = "BroadcastMsg"
        /\ ret[p][1].msg.source_version = [actor |-> p, counter |-> 2]

OnboardedAtMostOnce ==
    \A p \in Running : \A a \in Identity : onboarded[p][a] <= 1

\* C11: a delivery that on_delivery refuses (the stamp is not rec.inc(from))
\* changes none of rec, seq, to_validate and the ledger, and neither does the
\* rest of that handle_msg call; so after (A,2) was refused and (A,1) accepted,
\* rec[A] is 1 and nothing of (A,2) is kept.
RejectedLeavesNoTrace ==
    [][\A p \in Running :
          /\ (pc[p] = "idle" /\ pc'[p] = "process_msg_queue") =>
                \/ UNCHANGED <<rec, seq, to_validate, batch, bank, peers>>
                \/ \A from \in Identity : \A op \in Transfers :
                      \A counter \in (1 .. MaxCounter) \ {rec[p][from] + 1} :
                         ~HandleMsg(p, from,
                             [op |-> op,
                              source_version |->
                                 [actor |-> from, counter |-> counter]])
          /\ (pc[p] \in {"process_msg_queue", "drain"}
                /\ to_validate[p] = <<>> /\ batch[p] = <<>>) =>
                /\ rec'[p] = rec[p] /\ seq'[p] = seq[p] /\ bank'[p] = bank[p]
                /\ to_validate'[p] = <<>> /\ batch'[p] = <<>>]_vars

\* a fresh process has just refused a delivery: its queue is empty inside
\* handle_msg and nothing is received
RejectedLeavesNoTraceWitness ==
    \E p \in Running :
        /\ pc[p] = "process_msg_queue"
        /\ to_validate[p] = <<>>
        /\ rec[p] = VClockNew
        /\ seq[p] = VClockNew

\* C12: when the message at the head of the batch fails validation (its stamp is
\* not seq.inc(sender), or the ledger rejects the transfer) the drain drops it:
\* seq and the ledger are unchanged, nothing panics, and handle_msg returns no
\* command.
ValidationFailureIsDropped ==
    [][\A p \in Running :
          /\ (pc[p] = "drain" /\ batch[p] # <<>>) =>
                LET sender == Head(batch[p])[1]
                    msg == Head(batch[p])[2]
                    causal == msg.source_version =
                                 [actor |-> sender, counter |-> seq[p][sender] + 1]
                    fiscal == /\ msg.op.from = sender
                              /\ sender \in DOMAIN bank[p].initial_balances
                              /\ bank[p].initial_balances[sender] + bank[p].net[sender]
                                    >= msg.op.amount
                IN  (~causal \/ ~fiscal) =>
                       /\ seq'[p] = seq[p]
                       /\ bank'[p] = bank[p]
                       /\ applied'[p] = applied[p]
                       /\ pc'[p] = "drain"
                       /\ (batch'[p] # batch[p]) => batch'[p] = Tail(batch[p])
          /\ (pc[p] = "drain" /\ pc'[p] = "idle") => ret'[p] = <<>>]_vars

\* a message was admitted and then dropped by the drain
ValidationFailureIsDroppedWitness ==
    \E p \in Running : \E a \in Identity :
        /\ pc[p] = "drain"
        /\ batch[p] = <<>>
        /\ rec[p][a] = 1
        /\ seq[p][a] = 0
        /\ accepted[p][a] = <<1>>

\* C14: whatever the network delivers (duplicates, replays, any order, gaps),
\* the counters of an actor whose transfers a process applied to its ledger are
\* 1, 2, ..., seq[actor], applied in that order and each once.
ExactlyOnceGapFree ==
    \A p \in Running : \A a \in Identity :
        applied[p][a] = Counters(seq[p][a])

\* two transfers of an actor are applied and a further delivery was just refused
ExactlyOnceGapFreeWitness ==
    \E p \in Running : \E a \in Identity :
        /\ pc[p] = "process_msg_queue"
        /\ to_validate[p] = <<>>
        /\ applied[p][a] = <<1, 2>>

\* C15: to_validate is empty whenever no handle_msg call is in progress, and
\* from the mem::replace on inside one; the taken batch is empty at the return.
QueueEmptyAfterHandleMsg ==
    \A p \in Running :
        /\ pc[p] \in {"idle", "drain"} => to_validate[p] = <<>>
        /\ pc[p] = "idle" => batch[p] = <<>>

\* handle_msg has returned after applying the message of one actor and after
\* dropping the message of another in validate
QueueEmptyAfterHandleMsgWitness ==
    \E p \in Running : \E a, b \in Identity :
        /\ pc[p] = "idle"
        /\ to_validate[p] = <<>>
        /\ applied[p][a] = <<1>>
        /\ accepted[p][b] = <<1>>
        /\ applied[p][b] = <<>>
        /\ ret[p] = <<>>

\* C16: in every step, every entry of rec and of seq stays or grows by one; rec
\* changes only in the on_delivery of a handle_msg call (one entry), seq only in
\* the drain of a batch of one message (one entry), so each clock changes by at
\* most one per handle_msg call.
ClocksGrowByOne ==
    [][\A p \in Running : \A a \in Identity :
          /\ rec'[p][a] \in {rec[p][a], rec[p][a] + 1}
          /\ seq'[p][a] \in {seq[p][a], seq[p][a] + 1}
          /\ (rec'[p][a] # rec[p][a]) =>
                /\ pc[p] = "idle"
                /\ pc'[p] = "process_msg_queue"
                /\ rec'[p] = [rec[p] EXCEPT ![a] = @ + 1]
          /\ (seq'[p][a] # seq[p][a]) =>
                /\ pc[p] = "drain"
                /\ Len(batch[p]) = 1
                /\ batch'[p] = <<>>
                /\ seq'[p] = [seq[p] EXCEPT ![a] = @ + 1]]_vars

\* inside one handle_msg call, both clocks have grown by one for an actor
ClocksGrowByOneWitness ==
    \E p \in Running : \E a \in Identity :
        /\ pc[p] = "drain"
        /\ batch[p] = <<>>
        /\ rec[p][a] = 2
        /\ seq[p][a] = 2

\* the messages of an actor a process has accepted and not yet validated
Pending(p, a) ==
    LET queue == to_validate[p] \o batch[p]
    IN  Cardinality({i \in DOMAIN queue : queue[i][1] = a})

\* the process has received more from the actor than it can still apply
Stalled(p, a) == rec[p][a] > seq[p][a] + Pending(p, a)

\* C17: a message the drain drops leaves its sender stalled (rec[A] > seq[A],
\* nothing of A pending); a stalled sender stays stalled and nothing of it is
\* applied any more; and a transfer of A is applied only in a handle_msg call
\* that started with rec[A] = seq[A].
SenderStallsAfterDrop ==
    [][\A p \in Running :
          /\ (/\ pc[p] = "drain" /\ batch[p] # <<>>
              /\ pc'[p] = "drain" /\ seq'[p] = seq[p]) =>
                 \E a \in Identity : a = Head(batch[p])[1] /\ Stalled(p, a)'
          /\ \A a \in Identity :
                /\ Stalled(p, a) =>
                      /\ Stalled(p, a)'
                      /\ seq'[p][a] = seq[p][a]
                      /\ applied'[p][a] = applied[p][a]
                      /\ bank'[p].net = bank[p].net \/ seq'[p] # seq[p]
                /\ (applied'[p][a] # applied[p][a]) =>
                      /\ rec[p][a] = seq[p][a] + 1
                      /\ Pending(p, a) = 1]_vars

\* an actor's first message was dropped by validate and its second one was
\* accepted by on_delivery and dropped as well
SenderStallsAfterDropWitness ==
    \E p \in Running : \E a \in Identity :
        /\ pc[p] = "idle"
        /\ accepted[p][a] = <<1, 2>>
        /\ applied[p][a] = <<>>
        /\ a \in BankAccounts(bank[p])

\* C19: to_validate holds at most one message whenever process_msg_queue runs,
\* and the batch it drains holds at most one.
SingleMessageBatches ==
    \A p \in Running :
        /\ Len(to_validate[p]) <= 1
        /\ Len(batch[p]) <= 1

\* process_msg_queue is about to run on a queue of one message, after an
\* earlier call applied a message
SingleMessageBatchesWitness ==
    \E p \in Running : \E a \in Identity :
        /\ pc[p] = "process_msg_queue"
        /\ Len(to_validate[p]) = 1
        /\ seq[p][a] = 1
        /\ rec[p][a] = 2

\* C18: every BroadcastMsg a process emitted carries its own id and a counter
\* of at most seq[self] + 1; of two messages it emitted, if it has not applied
\* the first one's stamp for itself, the first carries (self, seq[self] + 1) and
\* the second carries the same stamp; and a process that receives two messages
\* with one stamp accepts and applies that stamp at most once, hence at most one
\* of the two transfers.
StampReuse ==
    \A a \in Identity : \A i \in DOMAIN sent[a] :
        /\ sent[a][i].source_version.actor = a
        /\ sent[a][i].op.from = a
        /\ sent[a][i].source_version.counter <= seq[a][a] + 1
        /\ \A j \in DOMAIN sent[a] :
              i < j =>
                 /\ (sent[a][i].source_version.counter > seq[a][a]) =>
                       sent[a][j].source_version = sent[a][i].source_version
                 /\ (sent[a][j].source_version = sent[a][i].source_version) =>
                       \A p \in Running :
                          LET k == sent[a][i].source_version.counter
                              Times(log) ==
                                 Cardinality({n \in DOMAIN log : log[n] = k})
                          IN  /\ Times(accepted[p][a]) <= 1
                              /\ Times(applied[p][a]) <= 1

\* a process emitted two different transfers under one stamp; another process
\* has handled both and applied one
StampReuseWitness ==
    \E a \in Identity : \E p \in Running \ {a} :
        /\ Len(sent[a]) = 2
        /\ sent[a][1].source_version = sent[a][2].source_version
        /\ sent[a][1].op # sent[a][2].op
        /\ handled[p][a] = 2
        /\ applied[p][a] = <<1>>
        /\ pc[p] = "idle"

\* C13: in a network where every process calls onboard and every returned
\* BroadcastNewPeer is delivered to every other process, every announcement in
\* flight carries the announcer's own initial balance, and eventually every
\* process has every other process among its peers, with that process's account
\* opened at the announced balance, for good.
PeerDiscovery ==
    /\ [](\A p \in Running : \A cmd \in BagToSet(wire[p]) :
            cmd.initial_balance =
               BankInitialBalance(bank[cmd.new_peer], cmd.new_peer))
    /\ <>[](\A p \in Running : \A q \in Running \ {p} :
              /\ q \in peers[p]
              /\ q \in BankAccounts(bank[p])
              /\ BankInitialBalance(bank[p], q) = BankInitialBalance(bank[q], q))

\* two processes with different initial balances know each other, while an
\* announcement is still in flight
PeerDiscoveryWitness ==
    /\ \A p \in Running : \A q \in Running \ {p} :
          /\ q \in peers[p]
          /\ q \in BankAccounts(bank[p])
          /\ BankInitialBalance(bank[p], q) = BankInitialBalance(bank[q], q)
    /\ \E p, q \in Running :
          BankInitialBalance(bank[p], p) # BankInitialBalance(bank[q], q)
    /\ \E p \in Running : wire[p] # EmptyBag

\* the number of BroadcastNewPeer commands the processes returned from an
\* operation ("onboard" or "handle_new_peer")
TotalAnnounced(operation) ==
    LET RECURSIVE Sum(_)
        Sum(ps) == IF ps = {} THEN 0
                   ELSE LET p == CHOOSE x \in ps : TRUE
                        IN  announced[p][operation] + Sum(ps \ {p})
    IN  Sum(Running)

\* C20: a process has returned exactly one BroadcastNewPeer from
\* handle_new_peer per id in its peers, which are at most N ids; with one
\* onboard command per process at most N + N * N commands are ever emitted; and
\* when every command is delivered the exchange ends with none in flight.
AnnouncementQuiescence ==
    /\ [](/\ \A p \in Running :
               /\ announced[p].handle_new_peer = Cardinality(peers[p])
               /\ announced[p].handle_new_peer <= Cardinality(Identity)
               /\ announced[p].onboard <= 1
          /\ TotalAnnounced("onboard") <= Cardinality(Identity)
          /\ TotalAnnounced("onboard") + TotalAnnounced("handle_new_peer")
                <= Cardinality(Identity) + Cardinality(Identity) * Cardinality(Identity))
    /\ <>[](\A p \in Running : wire[p] = EmptyBag)

\* the exchange has ended: every process announced itself, nothing is in
\* flight, and a process has answered N announcements, its own included
AnnouncementQuiescenceWitness ==
    /\ \A p \in Running : announced[p].onboard = 1 /\ wire[p] = EmptyBag
    /\ \E p \in Running : announced[p].handle_new_peer = Cardinality(Identity)
====
